---- MODULE Spec2Model ----
(***************************************************************************)
(* mymuesli-analyzer: the two-tier ingredient store (IngredientDict), the  *)
(* Offer and ReadyMix constructors and the lazily built ReadyMixList, as   *)
(* state machines over the class-level state of mymuesli_analyzer.py.      *)
(*                                                                         *)
(* Python exceptions propagate to the caller and leave the class-level     *)
(* state as it was when they were raised; the caller (an interactive       *)
(* session, an importing script) may go on calling, or the process may     *)
(* end (Restart), which keeps only the cache directory.                    *)
(***************************************************************************)
EXTENDS Integers, Sequences, FiniteSets, TLC

VARIABLES
    store,        \* IngredientDict.store: the class-level dict id -> Ingredient
    disk,         \* the cache directory: id -> content of <id>.json (a sequence of written fields)
    fetched,      \* per id, how often Ingredient.from_web fetched it (returned) in this process run
    all_elements, \* ReadyMixList.all_elements
    feeds,        \* the vendor's three feeds (/api/products, /api/search, /api/offers)
    feedRequests, \* feed requests (requests.get of /api/...) issued in this process run
    built,        \* get_all_ready_mixes has returned normally in this process run
    ret           \* what the last call returned or raised

vars == <<store, disk, fetched, all_elements, feeds, feedRequests, built, ret>>

----------------------------------------------------------------------------
(* Bounds *)

NumIngredients == 2
MaxFetch == 3

IngredientIds == 1..NumIngredients

----------------------------------------------------------------------------
(* Small helpers for Python dicts and lists *)

Put(f, k, v) == [x \in (DOMAIN f) \cup {k} |-> IF x = k THEN v ELSE f[x]]

EmptyDict == [x \in {} |-> 0]

Range(s) == {s[i] : i \in DOMAIN s}

\* F(v) with v evaluated once: a local variable holding an intermediate result.
With(v, F(_)) == CHOOSE y \in {F(x) : x \in {v}} : TRUE

----------------------------------------------------------------------------
(* Ingredient *)

\* The names an ingredient page can carry (h3 of #content).
PageNames == {"Mandel", "Goji"}

\* Ingredient.ingredient_type_map, scraped once at class creation: name -> category heading.
ingredient_type_map == [n \in {"Mandel"} |-> "Nuesse"]

NoIngredient == [ingredient_id |-> 0, name |-> "", ingredient_type |-> ""]

\* Ingredient.from_web: the page is fetched and parsed; the type is looked up by name.
from_web(ingredient_id, page) ==
    [ingredient_id |-> ingredient_id,
     name |-> page,
     ingredient_type |-> IF page \in DOMAIN ingredient_type_map
                         THEN ingredient_type_map[page] ELSE "Unbekannt"]

\* json.dump(ingredient.__dict__): the attributes in definition order, key then value.
Serialize(ing) ==
    << <<"ingredient_id", ing.ingredient_id>>,
       <<"name", ing.name>>,
       <<"ingredient_type", ing.ingredient_type>> >>

SerializedLen == Len(Serialize(NoIngredient))

\* json.load succeeds only on a complete document.
CanDecode(content) ==
    /\ Len(content) = SerializedLen
    /\ content[1][1] = "ingredient_id"
    /\ content[2][1] = "name"
    /\ content[3][1] = "ingredient_type"

\* json.load(..., object_hook=Ingredient.from_dict): Ingredient(**dict).
Deserialize(content) ==
    [ingredient_id |-> content[1][2],
     name |-> content[2][2],
     ingredient_type |-> content[3][2]]

----------------------------------------------------------------------------
(* The environment of one resolution: what the ingredient page holds (or    *)
(* "error" when the request or the parse raises), whether open(..., 'w')    *)
(* succeeds, and how many fields reach the file before the write stops     *)
(* (SerializedLen: all of them).                                           *)

EnvOutcomes ==
    {[page |-> "error", open_ok |-> TRUE, cut |-> SerializedLen]}
    \cup {[page |-> p, open_ok |-> FALSE, cut |-> 0] : p \in PageNames}
    \cup {[page |-> p, open_ok |-> TRUE, cut |-> c] : p \in PageNames, c \in 0..SerializedLen}

\* path.exists(file) and stat(file).st_size > 0
CacheFileUsable(dk, ingredient_id) ==
    ingredient_id \in DOMAIN dk /\ Len(dk[ingredient_id]) > 0

Raise(st, dk, n) ==
    [store |-> st, disk |-> dk, fetches |-> n, ok |-> FALSE,
     value |-> NoIngredient, tier |-> "error"]

Return(st, dk, n, t) ==
    [store |-> st, disk |-> dk, fetches |-> n, ok |-> TRUE,
     value |-> st[t[1]], tier |-> t[2]]

\* IngredientDict.__getitem__ without the in-memory test of the else branch.
GetItemNoMemoryTest(st, dk, ingredient_id, e) ==
    IF CacheFileUsable(dk, ingredient_id)
    THEN IF ingredient_id \in DOMAIN st
         THEN Return(st, dk, 0, <<ingredient_id, "memory">>)
         ELSE IF CanDecode(dk[ingredient_id])
              THEN Return(Put(st, ingredient_id, Deserialize(dk[ingredient_id])), dk, 0,
                          <<ingredient_id, "disk">>)
              ELSE Raise(st, dk, 0)
    ELSE IF e.page = "error"
         THEN Raise(st, dk, 0)
         ELSE LET st2 == Put(st, ingredient_id, from_web(ingredient_id, e.page))
                  text == Serialize(st2[ingredient_id])
              IN  IF ~e.open_ok
                  THEN Raise(st2, dk, 1)
                  ELSE IF e.cut < Len(text)
                       THEN Raise(st2, Put(dk, ingredient_id, SubSeq(text, 1, e.cut)), 1)
                       ELSE Return(st2, Put(dk, ingredient_id, text), 1,
                                   <<ingredient_id, "web">>)

\* IngredientDict.__getitem__ with the write block (lines 82-83) moved out of the else
\* branch, so that it also runs after a load from the cache file.
GetItemWritesAfterLoad(st, dk, ingredient_id, e) ==
    IF CacheFileUsable(dk, ingredient_id)
    THEN IF ingredient_id \in DOMAIN st
         THEN Return(st, dk, 0, <<ingredient_id, "memory">>)
         ELSE IF CanDecode(dk[ingredient_id])
              THEN LET st2 == Put(st, ingredient_id, Deserialize(dk[ingredient_id]))
                       text == Serialize(st2[ingredient_id])
                   IN  IF ~e.open_ok
                       THEN Raise(st2, dk, 0)
                       ELSE IF e.cut < Len(text)
                            THEN Raise(st2, Put(dk, ingredient_id, SubSeq(text, 1, e.cut)), 0)
                            ELSE Return(st2, Put(dk, ingredient_id, text), 0,
                                        <<ingredient_id, "disk">>)
              ELSE Raise(st, dk, 0)
    ELSE IF ingredient_id \in DOMAIN st
         THEN Return(st, dk, 0, <<ingredient_id, "memory">>)
         ELSE IF e.page = "error"
              THEN Raise(st, dk, 0)
              ELSE LET st2 == Put(st, ingredient_id, from_web(ingredient_id, e.page))
                       text == Serialize(st2[ingredient_id])
                   IN  IF ~e.open_ok
                       THEN Raise(st2, dk, 1)
                       ELSE IF e.cut < Len(text)
                            THEN Raise(st2, Put(dk, ingredient_id, SubSeq(text, 1, e.cut)), 1)
                            ELSE Return(st2, Put(dk, ingredient_id, text), 1,
                                        <<ingredient_id, "web">>)

\* IngredientDict.__getitem__: the new store and cache directory, whether from_web
\* returned, and what the call returns (tier: which return was taken) or that it raises.
GetItem(st, dk, ingredient_id, e) ==
    IF CacheFileUsable(dk, ingredient_id)
    THEN IF ingredient_id \in DOMAIN st
         THEN Return(st, dk, 0, <<ingredient_id, "memory">>)
         ELSE IF CanDecode(dk[ingredient_id])
              THEN Return(Put(st, ingredient_id, Deserialize(dk[ingredient_id])), dk, 0,
                          <<ingredient_id, "disk">>)
              ELSE Raise(st, dk, 0)
    ELSE IF ingredient_id \in DOMAIN st
         THEN Return(st, dk, 0, <<ingredient_id, "memory">>)
         ELSE IF e.page = "error"
              THEN Raise(st, dk, 0)
              ELSE LET st2 == Put(st, ingredient_id, from_web(ingredient_id, e.page))
                       text == Serialize(st2[ingredient_id])
                   IN  IF ~e.open_ok
                       THEN Raise(st2, dk, 1)
                       ELSE IF e.cut < Len(text)
                            THEN Raise(st2, Put(dk, ingredient_id, SubSeq(text, 1, e.cut)), 1)
                            ELSE Return(st2, Put(dk, ingredient_id, text), 1,
                                        <<ingredient_id, "web">>)

----------------------------------------------------------------------------
(* Strings are sequences of one-character strings ("E" stands for the euro  *)
(* sign); numbers that Python holds as floats are exact fractions.          *)

Digits == <<"0", "1", "2", "3", "4", "5", "6", "7", "8", "9">>

IsDigit(c) == \E d \in DOMAIN Digits : Digits[d] = c

DigitValue(c) == (CHOOSE d \in DOMAIN Digits : Digits[d] = c) - 1

\* str(n) of a natural number, as the f-string formats it.
RECURSIVE Str(_)
Str(n) == IF n < 10 THEN <<Digits[n + 1]>> ELSE Str(n \div 10) \o <<Digits[(n % 10) + 1]>>

\* sub in s
Contains(s, sub) ==
    \E i \in 1..(Len(s) - Len(sub) + 1) : SubSeq(s, i, i + Len(sub) - 1) = sub

\* s.replace(old, new): every non-overlapping occurrence, left to right.
RECURSIVE Replace(_, _, _)
Replace(s, old, new) ==
    IF Len(s) < Len(old) THEN s
    ELSE IF SubSeq(s, 1, Len(old)) = old
         THEN new \o Replace(SubSeq(s, Len(old) + 1, Len(s)), old, new)
         ELSE <<s[1]>> \o Replace(Tail(s), old, new)

\* s.strip(): leading and trailing blanks removed.
RECURSIVE Strip(_)
Strip(s) ==
    IF s = <<>> THEN s
    ELSE IF s[1] = " " THEN Strip(Tail(s))
    ELSE IF s[Len(s)] = " " THEN Strip(SubSeq(s, 1, Len(s) - 1))
    ELSE s

RECURSIVE DigitsValue(_)
DigitsValue(s) ==
    IF s = <<>> THEN 0 ELSE 10 * DigitsValue(SubSeq(s, 1, Len(s) - 1)) + DigitValue(s[Len(s)])

RECURSIVE Pow10(_)
Pow10(n) == IF n = 0 THEN 1 ELSE 10 * Pow10(n - 1)

\* float(s) accepts digits with at most one point among them, and at least one digit.
IsFloatText(s) ==
    /\ \A i \in DOMAIN s : IsDigit(s[i]) \/ s[i] = "."
    /\ Cardinality({i \in DOMAIN s : s[i] = "."}) <= 1
    /\ \E i \in DOMAIN s : IsDigit(s[i])

FloatOf(s) ==
    LET dots == {i \in DOMAIN s : s[i] = "."}
        digs == Replace(s, <<".">>, <<>>)
        frac == IF dots = {} THEN 0 ELSE Len(s) - (CHOOSE i \in dots : TRUE)
    IN  [num |-> DigitsValue(digs), den |-> Pow10(frac)]

UnitSuffix == <<" ", "E", "/", "1", "0", "0", "g">>

----------------------------------------------------------------------------
(* Offer *)

NoOffer == [offer_id |-> 0, name |-> <<>>, price |-> 0, original_price |-> 0,
            discount_percentage |-> [num |-> 0, den |-> 1],
            price_per_100g |-> [num |-> 0, den |-> 1]]

\* bool(x) of an optional number (<<>> is null): null and 0 are false.
Truthy(opt) == opt /= <<>> /\ opt[1] /= 0

\* The original_price argument of Offer.from_dict.
OriginalPrice(dict_data) ==
    IF Truthy(dict_data.priceMarketing) THEN dict_data.priceMarketing[1] ELSE dict_data.price

\* The text handed to float() for price_per_100g.
QuotationText(dict_data) ==
    Strip(Replace(Replace(dict_data.priceQuotation, UnitSuffix, <<>>), <<",">>, <<".">>))

\* Offer.from_dict followed by Offer.__init__: the Offer, or the exception raised.
OfferFromDict(dict_data) ==
    LET original_price == OriginalPrice(dict_data)
        text == QuotationText(dict_data)
    IN  IF ~IsFloatText(text)
        THEN [ok |-> FALSE, error |-> "ValueError", value |-> NoOffer]
        ELSE IF original_price = 0
        THEN [ok |-> FALSE, error |-> "ZeroDivisionError", value |-> NoOffer]
        ELSE [ok |-> TRUE, error |-> "",
              value |-> [offer_id |-> dict_data.id,
                         name |-> dict_data.name,
                         price |-> dict_data.price,
                         original_price |-> original_price,
                         discount_percentage |->
                             [num |-> original_price - dict_data.price,
                              den |-> original_price],
                         price_per_100g |-> FloatOf(text)]]

----------------------------------------------------------------------------
(* ReadyMix *)

BaseUrl == "https://www.mymuesli.com"

\* raised: the line of ReadyMix.__init__ or get_all_ready_mixes that raised, 0 for none.
NoReadyMix == [url |-> <<BaseUrl, "">>, ingredients |-> <<>>,
               ingredient_type_distribution |-> EmptyDict, grams |-> 0,
               offers |-> <<>>, single_offer |-> <<>>, popularity |-> 0]

\* sorted(items, key=..., reverse=desc) on a list of [key, val] pairs: stable, and
\* with reverse=True equal keys keep their original order too.
RECURSIVE InsertSorted(_, _, _)
InsertSorted(sorted, x, desc) ==
    IF sorted = <<>> THEN <<x>>
    ELSE LET last == sorted[Len(sorted)]
             before == IF desc THEN last.key >= x.key ELSE last.key <= x.key
         IN  IF before THEN Append(sorted, x)
             ELSE Append(InsertSorted(SubSeq(sorted, 1, Len(sorted) - 1), x, desc), last)

RECURSIVE SortedPairs(_, _)
SortedPairs(items, desc) ==
    IF items = <<>> THEN <<>>
    ELSE InsertSorted(SortedPairs(SubSeq(items, 1, Len(items) - 1), desc),
                      items[Len(items)], desc)

Values(pairs) == [i \in DOMAIN pairs |-> pairs[i].val]

RECURSIVE SumGrams(_)
SumGrams(items) ==
    IF items = <<>> THEN 0 ELSE items[1].grams + SumGrams(Tail(items))

\* The list comprehension of lines 157-161: every ingredient reference resolved in
\* order through IngredientDict()[id]; the first exception ends it.
RECURSIVE ResolveAll(_, _, _, _, _)
ResolveAll(st, dk, refs, env, acc) ==
    IF refs = <<>>
    THEN [store |-> st, disk |-> dk, ok |-> TRUE, items |-> acc.items,
          fetches |-> acc.fetches]
    ELSE With(GetItem(st, dk, refs[1].id, env[refs[1].id]), LAMBDA r :
         With([acc.fetches EXCEPT ![refs[1].id] = @ + r.fetches], LAMBDA n :
             IF ~r.ok
             THEN [store |-> r.store, disk |-> r.disk, ok |-> FALSE, items |-> <<>>,
                   fetches |-> n]
             ELSE ResolveAll(r.store, r.disk, Tail(refs), env,
                             [items |-> Append(acc.items,
                                               [ingredient |-> r.value,
                                                grams |-> refs[1].amountMilligram \div 1000]),
                              fetches |-> n])))

\* [Offer.from_dict(od) for od in offer_dicts]
RECURSIVE ParseOffers(_)
ParseOffers(offer_dicts) ==
    IF offer_dicts = <<>> THEN [ok |-> TRUE, offers |-> <<>>]
    ELSE With(OfferFromDict(offer_dicts[1]), LAMBDA o :
         IF ~o.ok THEN [ok |-> FALSE, offers |-> <<>>]
         ELSE With(ParseOffers(Tail(offer_dicts)), LAMBDA rest :
              IF ~rest.ok THEN rest
              ELSE [ok |-> TRUE, offers |-> <<o.value>> \o rest.offers]))

\* next(filter(pred, offers), None) with pred = f"{grams}g" in o.name
RECURSIVE FirstNamed(_, _)
FirstNamed(offers, sub) ==
    IF offers = <<>> THEN <<>>
    ELSE IF Contains(offers[1].name, sub) THEN <<offers[1]>>
    ELSE FirstNamed(Tail(offers), sub)

\* Line 167 with reverse=True: the dearest offer first.
SortOffersDescending(offers) ==
    Values(SortedPairs([i \in DOMAIN offers |-> [key |-> offers[i].price, val |-> offers[i]]],
                       TRUE))

\* sorted(offers, key=price): line 167.
SortOffers(offers) ==
    Values(SortedPairs([i \in DOMAIN offers |-> [key |-> offers[i].price, val |-> offers[i]]],
                       FALSE))

\* line 168
SingleOffer(offers, grams) == FirstNamed(offers, Str(grams) \o <<"g">>)

\* lines 162-163: per ingredient type, its share of the total grams.
TypeDistribution(items) ==
    [t \in {items[i].ingredient.ingredient_type : i \in DOMAIN items} |->
        [num |-> SumGrams(SelectSeq(items, LAMBDA it : it.ingredient.ingredient_type = t)),
         den |-> SumGrams(items)]]

NoFetches == [i \in IngredientIds |-> 0]

SortIngredients(items) ==
    Values(SortedPairs([i \in DOMAIN items |-> [key |-> items[i].grams, val |-> items[i]]],
                       TRUE))

\* ReadyMix.__init__: the store and cache directory it leaves, and the ReadyMix or
\* that it raised.
ReadyMixInit(st, dk, product_dict, search_dict, offer_dicts, env) ==
    With(ResolveAll(st, dk, product_dict.ingredients, env,
                    [items |-> <<>>, fetches |-> NoFetches]), LAMBDA res :
    With([store |-> res.store, disk |-> res.disk, fetches |-> res.fetches,
          ok |-> FALSE, raised |-> 0, value |-> NoReadyMix], LAMBDA out :
        IF ~res.ok THEN [out EXCEPT !.raised = 158]
        ELSE With(SortIngredients(res.items), LAMBDA ingredients :
             IF ingredients /= <<>> /\ SumGrams(ingredients) = 0
             THEN [out EXCEPT !.raised = 162]
             ELSE With(ParseOffers(offer_dicts), LAMBDA parsed :
                  IF ~parsed.ok THEN [out EXCEPT !.raised = 167]
                  ELSE With(SortOffers(parsed.offers), LAMBDA offers :
                       [out EXCEPT
                           !.ok = TRUE,
                           !.value =
                               [url |-> <<BaseUrl, product_dict.url>>,
                                ingredients |-> ingredients,
                                ingredient_type_distribution |-> TypeDistribution(ingredients),
                                grams |-> product_dict.weight,
                                offers |-> offers,
                                single_offer |-> SingleOffer(offers, product_dict.weight),
                                popularity |-> search_dict.popularity]])))))

----------------------------------------------------------------------------
(* ReadyMixList *)

\* Line 188 without the brand test.
IsReadyMixSearchItemAnyBrand(sr) ==
    sr.type = "product" /\ "is-ready-mix" \in sr.filter

\* line 188
IsReadyMixSearchItem(sr) ==
    sr.type = "product" /\ sr.brand.key = "mymuesli" /\ "is-ready-mix" \in sr.filter

ready_mix_search_items(mymuesli_search) == SelectSeq(mymuesli_search, IsReadyMixSearchItem)

\* next(filter(lambda product: product['id'] == rmsi['id'], mymuesli_products)):
\* <<>> stands for the StopIteration of an exhausted filter.
RECURSIVE FirstProduct(_, _)
FirstProduct(mymuesli_products, id) ==
    IF mymuesli_products = <<>> THEN <<>>
    ELSE IF mymuesli_products[1].id = id THEN <<mymuesli_products[1]>>
    ELSE FirstProduct(Tail(mymuesli_products), id)

\* line 193
OffersOf(mymuesli_offers, rmpd) ==
    SelectSeq(mymuesli_offers, LAMBDA offer : offer.productArticleNumber = rmpd.articleNumber)

AddFetches(f, g) == [i \in IngredientIds |-> f[i] + g[i]]

\* The loop of get_all_ready_mixes (lines 190-193) from the given list on: each
\* ReadyMix is appended as soon as it is built; an exception leaves what was appended.
RECURSIVE BuildLoop(_, _, _, _, _, _)
BuildLoop(st, dk, elems, items, fd, env) ==
    IF items = <<>>
    THEN [store |-> st, disk |-> dk, all_elements |-> elems, ok |-> TRUE, raised |-> 0,
          fetches |-> NoFetches]
    ELSE With(FirstProduct(fd.products, items[1].id), LAMBDA found :
         IF found = <<>>
         THEN [store |-> st, disk |-> dk, all_elements |-> elems, ok |-> FALSE,
               raised |-> 191, fetches |-> NoFetches]
         ELSE With(ReadyMixInit(st, dk, found[1], items[1],
                                OffersOf(fd.offers, found[1]), env), LAMBDA rm :
              IF ~rm.ok
              THEN [store |-> rm.store, disk |-> rm.disk, all_elements |-> elems,
                    ok |-> FALSE, raised |-> rm.raised, fetches |-> rm.fetches]
              ELSE With(BuildLoop(rm.store, rm.disk, Append(elems, rm.value),
                                  Tail(items), fd, env), LAMBDA rest :
                   [rest EXCEPT !.fetches = AddFetches(rm.fetches, @)])))

\* ReadyMixList.get_all_ready_mixes once the three feeds are read.
GetAllReadyMixes(st, dk, elems, fd, env) ==
    BuildLoop(st, dk, elems, ready_mix_search_items(fd.search), fd, env)

\* len(cls.all_elements) == 0: the collection counts as not built.
NeedsBuild(elems) == Len(elems) = 0

----------------------------------------------------------------------------
(* Actions on the ingredient store *)

NoFeeds == [products |-> <<>>, search |-> <<>>, offers |-> <<>>]

Fresh ==
    /\ store = EmptyDict
    /\ disk = EmptyDict
    /\ fetched = NoFetches
    /\ all_elements = <<>>
    /\ feedRequests = 0
    /\ built = FALSE
    /\ ret = [op |-> "none"]

Init == Fresh /\ feeds = NoFeeds

\* IngredientDict()[ingredient_id], on any instance: every instance's self.store is
\* the class-level dict (line 64).
Resolve(ingredient_id, e) ==
    \E r \in {GetItem(store, disk, ingredient_id, e)} :
    /\ fetched[ingredient_id] + r.fetches <= MaxFetch
    /\ store' = r.store
    /\ disk' = r.disk
    /\ fetched' = [fetched EXCEPT ![ingredient_id] = @ + r.fetches]
    /\ ret' = [op |-> "getitem", key |-> ingredient_id, ok |-> r.ok,
               value |-> r.value, tier |-> r.tier]
    /\ UNCHANGED <<all_elements, feeds, feedRequests, built>>

\* IngredientDict({ingredient_id: ingredient}) and d[ingredient_id] = ingredient:
\* __init__'s update() goes through __setitem__.
SetItem(ingredient_id, page) ==
    /\ store' = Put(store, ingredient_id, from_web(ingredient_id, page))
    /\ ret' = [op |-> "setitem", key |-> ingredient_id]
    /\ UNCHANGED <<disk, fetched, all_elements, feeds, feedRequests, built>>

\* The process ends (normally, by an uncaught exception or by a crash) and a new one
\* starts: the class-level state is fresh, the cache directory is kept.
Restart ==
    /\ store' = EmptyDict
    /\ fetched' = NoFetches
    /\ all_elements' = <<>>
    /\ feedRequests' = 0
    /\ built' = FALSE
    /\ ret' = [op |-> "none"]
    /\ UNCHANGED <<disk, feeds>>

Next ==
    \/ \E i \in IngredientIds, e \in EnvOutcomes : Resolve(i, e)
    \/ \E i \in IngredientIds, p \in PageNames : SetItem(i, p)
    \/ Restart

Spec == Init /\ [][Next]_vars

----------------------------------------------------------------------------
(* Offer.from_dict on raw pricing records *)

Text5g == <<"5", "g">>
Text15g == <<"1", "5", "g">>
TextMix == <<"M", "i", "x">>

QuotationGood == <<"3", ",", "4", "9", " ", "E", "/", "1", "0", "0", "g">>
QuotationNoUnit == <<" ", "1", ",", "6", "0">>
QuotationBad == <<"x">>

RawOffers ==
    {[id |-> i, name |-> n, price |-> p, priceMarketing |-> pm, priceQuotation |-> q,
      productArticleNumber |-> a] :
        i \in {1, 2}, n \in {Text5g, Text15g, TextMix}, p \in {0, 8, 10},
        pm \in {<<>>, <<0>>, <<10>>}, q \in {QuotationGood, QuotationNoUnit, QuotationBad},
        a \in {"A1", "A2"}}

OfferNew(dict_data) ==
    \E o \in {OfferFromDict(dict_data)} :
    /\ ret' = [op |-> "offer", arg |-> dict_data, ok |-> o.ok, error |-> o.error,
               value |-> o.value]
    /\ UNCHANGED <<store, disk, fetched, all_elements, feeds, feedRequests, built>>

NextOffer == \E d \in RawOffers : OfferNew(d)

SpecOffer == Init /\ [][NextOffer]_vars

----------------------------------------------------------------------------
(* ReadyMix(product_dict, search_dict, offer_dicts) on its own *)

MaxOffers == 3

RECURSIVE SeqsUpTo(_, _)
SeqsUpTo(S, n) ==
    IF n = 0 THEN {<<>>}
    ELSE LET shorter == SeqsUpTo(S, n - 1) IN
         shorter \cup {Append(q, x) : q \in shorter, x \in S}

Ref(i, mg) == [id |-> i, amountMilligram |-> mg]

Product(i, u, a, w, refs) ==
    [id |-> i, url |-> u, articleNumber |-> a, weight |-> w, ingredients |-> refs]

ProductA == Product(1, "/a", "A1", 5, <<Ref(1, 2000), Ref(2, 3500)>>)
ProductB == Product(1, "/b", "A2", 15, <<>>)
ProductC == Product(2, "/c", "A1", 5, <<Ref(1, 500)>>)
ProductD == Product(2, "/d", "A2", 5, <<Ref(1, 999), Ref(2, 0)>>)
ProductE == Product(2, "/e", "A2", 15, <<Ref(1, 1000), Ref(2, 1000), Ref(1, 2500)>>)

ProductPool == {ProductA, ProductB, ProductC, ProductD, ProductE}

Raw(i, n, p, pm, a) ==
    [id |-> i, name |-> n, price |-> p, priceMarketing |-> pm,
     priceQuotation |-> QuotationGood, productArticleNumber |-> a]

OfferPool ==
    {Raw(1, Text5g, 8, <<10>>, "A1"), Raw(2, Text15g, 3, <<>>, "A1"),
     Raw(3, TextMix, 3, <<>>, "A2"), Raw(4, Text5g, 0, <<>>, "A2")}

Search(i, t, b, f, pop) ==
    [id |-> i, type |-> t, brand |-> [key |-> b], filter |-> f, popularity |-> pop]

SearchA == Search(1, "product", "mymuesli", {"is-ready-mix", "is-bio"}, 7)
SearchB == Search(2, "product", "mymuesli", {"is-ready-mix"}, 9)
SearchC == Search(1, "category", "mymuesli", {"is-ready-mix"}, 1)
SearchD == Search(1, "product", "other", {"is-ready-mix"}, 2)
SearchE == Search(2, "product", "mymuesli", {"is-bio"}, 3)

SearchPool == {SearchA, SearchB, SearchC, SearchD, SearchE}

\* The environment of a whole construction: per ingredient, the page served or a
\* failing request; the cache directory is writable.
PageEnvs ==
    [IngredientIds -> {[page |-> p, open_ok |-> TRUE, cut |-> SerializedLen] :
                          p \in PageNames \cup {"error"}}]

\* The first construction of a process run.
ReadyMixNew(product_dict, search_dict, offer_dicts, env) ==
    /\ ret.op = "none"
    /\ \E rm \in {ReadyMixInit(store, disk, product_dict, search_dict, offer_dicts, env)} :
        /\ store' = rm.store
        /\ disk' = rm.disk
        /\ fetched' = AddFetches(fetched, rm.fetches)
        /\ ret' = [op |-> "readymix", product |-> product_dict, offer_dicts |-> offer_dicts,
                   ok |-> rm.ok, raised |-> rm.raised, value |-> rm.value]
        /\ UNCHANGED <<all_elements, feeds, feedRequests, built>>

NextMix ==
    \/ /\ ret.op = "none"
       /\ \E p \in ProductPool, o \in SeqsUpTo(OfferPool, MaxOffers), env \in PageEnvs :
              ReadyMixNew(p, SearchA, o, env)
    \/ Restart

SpecMix == Init /\ [][NextMix]_vars

----------------------------------------------------------------------------
(* ReadyMixList() against the vendor's feeds, which stay as they are during a *)
(* behaviour.                                                                 *)

MaxSearch == 2
MaxFeedRequests == 6

ProductFeeds ==
    {<<>>, <<ProductA>>, <<ProductB, ProductA>>, <<ProductA, ProductE>>,
     <<ProductC, ProductA>>, <<ProductB, ProductE>>}

OfferFeeds ==
    {<<>>,
     <<Raw(1, Text5g, 8, <<10>>, "A1"), Raw(2, Text15g, 3, <<>>, "A2")>>,
     <<Raw(2, Text15g, 3, <<>>, "A2"), Raw(3, Text5g, 2, <<>>, "A2"),
       Raw(1, Text5g, 8, <<10>>, "A1")>>,
     <<Raw(4, Text5g, 0, <<>>, "A2")>>}

FeedSets ==
    {[products |-> p, search |-> s, offers |-> o] :
        p \in ProductFeeds, s \in SeqsUpTo(SearchPool, MaxSearch), o \in OfferFeeds}

InitList == Fresh /\ feeds \in FeedSets

\* The environment of a build: per ingredient a page or a failing request, or a
\* write that stops before the first field.
BuildEnvs ==
    [IngredientIds -> {[page |-> "Mandel", open_ok |-> TRUE, cut |-> SerializedLen],
                       [page |-> "error", open_ok |-> TRUE, cut |-> SerializedLen],
                       [page |-> "Goji", open_ok |-> TRUE, cut |-> 0]}]

\* ReadyMixList(): __new__ builds when the collection is empty and returns the
\* collection. feedsRead is how many of the three feed requests succeed.
ReadyMixListNew ==
    IF NeedsBuild(all_elements)
    THEN /\ feedRequests + 3 <= MaxFeedRequests
         /\ \E feedsRead \in 0..3 :
            IF feedsRead < 3
            THEN /\ feedRequests' = feedRequests + feedsRead + 1
                 /\ ret' = [op |-> "list", ran |-> TRUE, read |-> FALSE, ok |-> FALSE,
                            raised |-> 184 + feedsRead]
                 /\ UNCHANGED <<store, disk, fetched, all_elements, built, feeds>>
            ELSE \E env \in BuildEnvs :
                 \E r \in {GetAllReadyMixes(store, disk, all_elements, feeds, env)} :
                    /\ feedRequests' = feedRequests + 3
                    /\ store' = r.store
                    /\ disk' = r.disk
                    /\ fetched' = AddFetches(fetched, r.fetches)
                    /\ all_elements' = r.all_elements
                    /\ built' = (built \/ r.ok)
                    /\ ret' = [op |-> "list", ran |-> TRUE, read |-> TRUE, ok |-> r.ok,
                               raised |-> r.raised]
                    /\ UNCHANGED feeds
    ELSE /\ ret' = [op |-> "list", ran |-> FALSE, read |-> FALSE, ok |-> TRUE, raised |-> 0]
         /\ UNCHANGED <<store, disk, fetched, all_elements, feedRequests, built, feeds>>

NextList == ReadyMixListNew

SpecList == InitList /\ [][NextList]_vars

----------------------------------------------------------------------------
(* Properties of the ingredient store (Spec) *)

SameFile(d1, d2, i) ==
    /\ (i \in DOMAIN d1) = (i \in DOMAIN d2)
    /\ i \in DOMAIN d1 => d1[i] = d2[i]

C2_PersistedBeforeVisible ==
    /\ (ret.op = "getitem" /\ ret.ok) =>
           (CacheFileUsable(disk, ret.key) /\ disk[ret.key] = Serialize(ret.value))
    /\ \A i \in DOMAIN store :
           CacheFileUsable(disk, i) /\ disk[i] = Serialize(store[i])

\* C5: cache writes are all-or-nothing: a cache file is either absent or holds a
\* complete serialized Ingredient, never zero-length and never partial.
C5_NoPartialFile == \A i \in DOMAIN disk : CanDecode(disk[i])

\* C9: a cache file changes only in a resolution of its own id that fetched the id
\* from the source; a resolution answered from the in-memory tier or from the cache
\* file leaves the cache directory as it was; and an answer from the cache file is
\* given only for a file that was non-empty.
C9_WriteOnlyOnFetch ==
    [][/\ disk' /= disk =>
            /\ ret'.op = "getitem"
            /\ fetched'[ret'.key] = fetched[ret'.key] + 1
            /\ \A i \in IngredientIds \ {ret'.key} : SameFile(disk, disk', i)
       /\ (ret'.op = "getitem" /\ ret'.tier \in {"memory", "disk"}) => disk' = disk
       /\ (ret'.op = "getitem" /\ ret'.tier = "disk") => CacheFileUsable(disk, ret'.key)
      ]_vars

\* C9's case: a resolution answered from a non-empty cache file, nothing fetched,
\* while another id's file is zero-length.
C9_AnsweredFromCacheFile ==
    /\ ret.op = "getitem" /\ ret.ok /\ ret.tier = "disk"
    /\ fetched[ret.key] = 0
    /\ \E i \in DOMAIN disk : disk[i] = <<>>

----------------------------------------------------------------------------
(* Properties of Offer (SpecOffer) *)

\* The original price as the claim reads it: priceMarketing, or price when
\* priceMarketing is absent.
StatedOriginal(dict_data) ==
    IF dict_data.priceMarketing = <<>> THEN dict_data.price ELSE dict_data.priceMarketing[1]

\* C7: for a raw pricing record with a well-formed priceQuotation, an original price
\* of 0 yields an Offer whose discount is 0, and a non-zero original price yields the
\* discount (original - current) / original.
C7_ZeroOriginalGuarded ==
    (ret.op = "offer" /\ IsFloatText(QuotationText(ret.arg))) =>
        /\ ret.ok
        /\ StatedOriginal(ret.arg) = 0 => ret.value.discount_percentage.num = 0
        /\ StatedOriginal(ret.arg) /= 0 =>
               ret.value.discount_percentage.num * StatedOriginal(ret.arg)
                   = (StatedOriginal(ret.arg) - ret.arg.price) * ret.value.discount_percentage.den

----------------------------------------------------------------------------
(* Properties of ReadyMix (SpecMix) *)

RECURSIVE TotalGrams(_)
TotalGrams(refs) ==
    IF refs = <<>> THEN 0 ELSE (refs[1].amountMilligram \div 1000) + TotalGrams(Tail(refs))

\* C8: assembling a ReadyMix whose ingredients sum to 0 grams does not fault in the
\* distribution step, and when it completes the distribution is empty.
C8_ZeroGramsNoFault ==
    (ret.op = "readymix" /\ TotalGrams(ret.product.ingredients) = 0) =>
        /\ ret.raised /= 162
        /\ ret.ok => DOMAIN ret.value.ingredient_type_distribution = {}

Occurrences(s, x) == Cardinality({i \in DOMAIN s : s[i] = x})

\* C10: offers holds the parsed pricing records in ascending order of price, and
\* single_offer is the first of them whose name contains "<weight>g", absent exactly
\* when none does.
C10_OffersSortedSingleFirst ==
    (ret.op = "readymix" /\ ret.ok) =>
        LET offers == ret.value.offers
            parsed == [i \in DOMAIN ret.offer_dicts |-> OfferFromDict(ret.offer_dicts[i]).value]
            sub == Str(ret.product.weight) \o <<"g">>
            named == {i \in DOMAIN offers : Contains(offers[i].name, sub)}
        IN  /\ Len(offers) = Len(parsed)
            /\ \A x \in Range(parsed) : Occurrences(offers, x) = Occurrences(parsed, x)
            /\ \A i, j \in DOMAIN offers : i < j => offers[i].price <= offers[j].price
            /\ named = {} <=> ret.value.single_offer = <<>>
            /\ named /= {} =>
                   ret.value.single_offer = <<offers[CHOOSE i \in named : \A j \in named : i <= j]>>

\* C10's case: a ReadyMix whose pricing records arrive out of price order, two of
\* them naming the weight, the cheaper one after the dearer one.
C10_TwoNamedOutOfOrder ==
    /\ ret.op = "readymix" /\ ret.ok
    /\ Len(ret.offer_dicts) >= 2
    /\ ret.offer_dicts[1].price > ret.offer_dicts[2].price
    /\ \A i \in 1..2 : Contains(ret.offer_dicts[i].name, Str(ret.product.weight) \o <<"g">>)
    /\ ret.value.single_offer /= <<>>

----------------------------------------------------------------------------
(* Properties of ReadyMixList (SpecList) *)

\* C3: once get_all_ready_mixes has returned, a later ReadyMixList() in the same run
\* requests no feed and appends nothing.
C3_PopulatedOnce ==
    [][(built /\ built') => (feedRequests' = feedRequests /\ all_elements' = all_elements)]_vars

\* C4: the collection is never partially populated: it is empty, or it holds a
\* ReadyMix for every search entry that passes the filter.
C4_NoPartialCollection ==
    \/ Len(all_elements) = 0
    \/ Len(all_elements) = Len(SelectSeq(feeds.search, IsReadyMixSearchItem))

Passing(mymuesli_search) ==
    SelectSeq(mymuesli_search,
              LAMBDA sr : /\ sr.type = "product"
                          /\ sr.brand.key = "mymuesli"
                          /\ "is-ready-mix" \in sr.filter)

HasCatalogRecord(id) == \E j \in DOMAIN feeds.products : feeds.products[j].id = id

CatalogRecord(id) ==
    feeds.products[CHOOSE j \in DOMAIN feeds.products :
                       /\ feeds.products[j].id = id
                       /\ \A k \in 1..(j - 1) : feeds.products[k].id /= id]

\* C6: after a build that started from an empty collection and succeeded, the
\* collection holds one ReadyMix per search entry of type 'product', brand
\* 'mymuesli' and marker 'is-ready-mix', in feed order, each made from the first
\* catalog record with the entry's id and from exactly the pricing records with that
\* record's article number; a build that read the feeds fails when a surviving entry
\* has no catalog record.
C6_JoinOfTheFeeds ==
    (ret.op = "list" /\ ret.ran /\ ret.read) =>
        LET items == Passing(feeds.search) IN
        /\ (\E k \in DOMAIN items : ~HasCatalogRecord(items[k].id)) => ~ret.ok
        /\ ret.ok =>
            /\ Len(all_elements) = Len(items)
            /\ \A k \in DOMAIN items :
                LET rm == all_elements[k]
                    product == CatalogRecord(items[k].id)
                    priced == {j \in DOMAIN feeds.offers :
                                  feeds.offers[j].productArticleNumber = product.articleNumber}
                IN  /\ rm.url = <<BaseUrl, product.url>>
                    /\ rm.grams = product.weight
                    /\ rm.popularity = items[k].popularity
                    /\ Len(rm.offers) = Cardinality(priced)
                    /\ \A j \in DOMAIN feeds.offers :
                           j \in priced <=>
                               \E i \in DOMAIN rm.offers : rm.offers[i].offer_id = feeds.offers[j].id

\* C6's case: a successful build over feeds in which an entry is filtered out, the
\* catalog holds two records with a surviving entry's id, and a ReadyMix got offers.
C6_BuiltFromFirstMatch ==
    /\ ret.op = "list" /\ ret.ran /\ ret.ok
    /\ Len(all_elements) >= 1
    /\ Len(feeds.search) > Len(all_elements)
    /\ \E k \in DOMAIN all_elements : all_elements[k].offers /= <<>>
    /\ \E i, j \in DOMAIN feeds.products :
           /\ i < j
           /\ feeds.products[i].id = feeds.products[j].id
           /\ \E k \in DOMAIN feeds.search :
                  IsReadyMixSearchItem(feeds.search[k]) /\ feeds.search[k].id = feeds.products[i].id

====
